---- MODULE Spec2Model ----
(***************************************************************************)
(* Model of the two interactive credentials of azure-identity:             *)
(*   InteractiveBrowserCredential._request_token  (_credentials/browser.py) *)
(*   DeviceCodeCredential._request_token       (_credentials/device_code.py)*)
(* Every attempt (one call of _request_token) is a process that walks the   *)
(* statements of the method; the sockets of the host, the MSAL application, *)
(* the browser, the user and the clock are the environment.                 *)
(***************************************************************************)
EXTENDS Integers, Sequences, FiniteSets, TLC

\* ------------------------------------------------------------------ bounds
NAttempts == 2        \* attempt identities (threads / credential instances)
MaxPrefix == 6        \* longest run of occupied ports at the start of the range
MaxEnvChanges == 1    \* ports another process takes or frees during an attempt
MaxTime == 8          \* last clock tick the model lets time reach
TicksPerSec == 2      \* clock resolution: ticks in one second

\* ------------------------------------------------------- program constants
PortLo == 8400        \* range(8400, 9000): first port scanned
PortStop == 9000      \* range(8400, 9000): exclusive end of the scan
DefaultTimeout == 300 \* kwargs.pop("timeout", 300)
FallbackTimeout == 5  \* kwargs = {"timeout": 5} of the powershell fallback

Attempts == 1..NAttempts

\* Python's None / a present value; also the empty / non-empty dict.
None == <<>>
Some(x) == <<x>>
IsSome(o) == o # <<>>
Get(o) == o[1]

ScanPorts == PortLo..(PortStop - 1)
OtherPort == PortStop + 500  \* a port outside the scanned range, for explicit redirect URIs
Ports == ScanPorts \cup {OtherPort}

VARIABLES
  callers,      \* callers[a]: the credential attempt a calls in this run, or ""
  occupied,     \* ports held by other processes of the host
  envChanges,   \* how many times another process took or freed a port
  pc,           \* pc[a]: the statement attempt a is at
  cfg,          \* cfg[a]: the credential's configuration and the call's arguments
  port,         \* port[a]: the loop variable of the port scan
  server,       \* server[a]: None or the listener [hostname, port, open]
  redirect_uri, \* redirect_uri[a]: the local of that name
  flow,         \* flow[a]: what initiate_*_flow returned
  response,     \* response[a]: what wait_for_redirect returned
  outcomes,     \* outcomes[a]: every return / raise that left _request_token
  tried,        \* tried[a]: every bind the attempt made, in order
  trace,        \* trace[a]: the collaborator calls the attempt made, in order
  initiateArgs, \* initiateArgs[a]: the arguments of initiate_auth_code_flow
  exchangeArgs, \* exchangeArgs[a]: the arguments of acquire_token_by_auth_code_flow
  exchanged,    \* exchanged[a]: what acquire_token_by_auth_code_flow returned or raised
  browserLog,   \* browserLog[a]: what _open_browser did
  now,          \* the clock, time.time(), in ticks
  deadline,     \* deadline[a]: the local of that name, in whole seconds
  deadlineAt,   \* deadlineAt[a]: the clock when deadline[a] was computed
  pollArgs,     \* pollArgs[a]: the arguments of acquire_token_by_device_flow
  result,       \* result[a]: what acquire_token_by_device_flow returned
  prompts       \* prompts[a]: every presentation of the device code to the user

envVars == <<callers, occupied, envChanges>>
browserVars == <<port, server, redirect_uri, response, tried, initiateArgs, exchangeArgs,
                 exchanged, browserLog>>
deviceVars == <<now, deadline, deadlineAt, pollArgs, result, prompts>>
vars == <<callers, occupied, envChanges, pc, cfg, port, server, redirect_uri, flow,
          response, outcomes, tried, trace, initiateArgs, exchangeArgs, exchanged,
          browserLog, now, deadline, deadlineAt, pollArgs, result, prompts>>

\* --------------------------------------------------------------- values
NoUri == [scheme |-> "", host |-> "", port |-> 0]

\* Mutant: the redirect URI always names the first port of the range.
FormatUriFirstPort(hostname, p) == [scheme |-> "http", host |-> hostname, port |-> PortLo]

\* "http://{}:{}".format(hostname, port)
FormatUri(hostname, p) == [scheme |-> "http", host |-> hostname, port |-> p]

\* An exception message: the format string and what is formatted into it.
Msg(fmt, uri, n, s) == [fmt |-> fmt, uri |-> uri, n |-> n, s |-> s]
NoMsg == Msg("", NoUri, 0, "")

\* The ways control leaves _request_token.
Returned(v) == [kind |-> "return", type |-> "", message |-> NoMsg, value |-> Some(v)]
Raised(type, m) == [kind |-> "raise", type |-> type, message |-> m, value |-> None]

CredentialUnavailableError(m) == Raised("CredentialUnavailableError", m)
ClientAuthenticationError(m) == Raised("ClientAuthenticationError", m)

\* Errors the MSAL application or a caller's callback raises on its own.
CollaboratorErrors ==
  { Raised("ValueError", Msg("state mismatch", NoUri, 0, "")),
    Raised("ConnectionError", Msg("connection failed", NoUri, 0, "")) }

\* The decorator of _request_token hands every outcome to the caller as it is.
wrap_exceptions(o) == o

\* list(scopes): the elements of the argument tuple, in order.
ListOf(t) == [i \in 1..Len(t) |-> t[i]]

\* ------------------------------------------------------- configurations
Hosts == {"localhost", "127.0.0.1"}
ExplicitUrls ==
  { [hostname |-> "localhost", port |-> PortLo],
    [hostname |-> "127.0.0.1", port |-> PortLo + 2],
    [hostname |-> "localhost", port |-> OtherPort] }

\* The caller's arguments: scopes, claims, login_hint.
CallArgs ==
  { [scopes |-> <<"s1">>, claims |-> None, login_hint |-> None],
    [scopes |-> <<"s1", "s2">>, claims |-> Some("c1"), login_hint |-> Some("user")] }

BrowserTimeouts == {1, DefaultTimeout}

NoCfg ==
  [kind |-> "", parsed_url |-> None, timeout |-> None, scopes |-> <<>>, claims |-> None,
   login_hint |-> None, within_dac |-> FALSE, prompt_callback |-> FALSE]

\* InteractiveBrowserCredential.__init__ and the arguments of one call.
BrowserCfgs ==
  { [kind |-> "browser", parsed_url |-> u, timeout |-> Some(t), scopes |-> c.scopes,
     claims |-> c.claims, login_hint |-> c.login_hint, within_dac |-> d,
     prompt_callback |-> FALSE] :
       u \in {None} \cup {Some(x) : x \in ExplicitUrls}, t \in BrowserTimeouts,
       c \in CallArgs, d \in BOOLEAN }

\* ---------------------------------------------------------- environment
Prefix(k) == PortLo..(PortLo + k - 1)

\* The ports other processes hold when the run starts.
OccupiedChoices ==
  { Prefix(k) : k \in 0..MaxPrefix }
    \cup { Prefix(k) \cup {OtherPort} : k \in 1..2 }
    \cup { ScanPorts, ScanPorts \ {PortStop - 1}, (ScanPorts \cup {PortStop}) \ {PortLo + 1} }

\* The ports another process may take or free while an attempt binds.
EnvPorts == {PortLo, PortLo + 1, PortStop - 1}

Listening(a) == IsSome(server[a]) /\ Get(server[a]).open
HeldPorts == { Get(server[b]).port : b \in { x \in Attempts : Listening(x) } }

\* AuthCodeRedirectServer(hostname, port, timeout): the listener, or None for the
\* socket.error of a port that is already bound.
CanBind(p) == p \notin occupied /\ p \notin HeldPorts
ServerClass(hostname, p, timeout) ==
  IF CanBind(p)
    THEN Some([hostname |-> hostname, port |-> p, timeout |-> timeout, open |-> TRUE])
    ELSE None

\* server_close(): the listener with its port released.
Closed(s) == IF IsSome(s) THEN Some([Get(s) EXCEPT !.open = FALSE]) ELSE s

Event(a, op) == [op |-> op, listening |-> Listening(a)]

\* ------------------------------------------------------- _open_browser
\* Strings the platform reports, as sequences of characters.
UpperChars == <<"A","B","C","D","E","F","G","H","I","J","K","L","M",
                "N","O","P","Q","R","S","T","U","V","W","X","Y","Z">>
LowerChars == <<"a","b","c","d","e","f","g","h","i","j","k","l","m",
                "n","o","p","q","r","s","t","u","v","w","x","y","z">>

\* str.lower()
LowerChar(c) ==
  IF \E i \in 1..Len(UpperChars) : UpperChars[i] = c
    THEN LowerChars[CHOOSE i \in 1..Len(UpperChars) : UpperChars[i] = c]
    ELSE c
Lower(str) == [i \in 1..Len(str) |-> LowerChar(str[i])]

\* needle in hay
Contains(hay, needle) ==
  \E i \in 1..(Len(hay) - Len(needle) + 1) : SubSeq(hay, i, i + Len(needle) - 1) = needle

microsoft == <<"m","i","c","r","o","s","o","f","t">>
linux == <<"l","i","n","u","x">>

\* platform.uname(): (system, node, release, ...)
Unames ==
  { [system |-> <<"L","i","n","u","x">>,
     release |-> <<"5",".","1","-","m","i","c","r","o","s","o","f","t","-","W","S","L","2">>],
    [system |-> <<"L","i","n","u","x">>,
     release |-> <<"4",".","4","-","M","i","c","r","o","s","o","f","t">>],
    [system |-> <<"L","i","n","u","x">>,
     release |-> <<"6",".","1","-","g","e","n","e","r","i","c">>],
    [system |-> <<"W","i","n","d","o","w","s">>,
     release |-> <<"1","0","-","m","i","c","r","o","s","o","f","t">>],
    [system |-> <<"D","a","r","w","i","n">>, release |-> <<"2","3",".","1">>] }

\* subprocess.call(["powershell.exe", ...], timeout=5): an exit code, or an
\* exception (powershell.exe is missing, or TimeoutExpired after the timeout).
FallbackOutcomes ==
  { [raised |-> FALSE, exit_code |-> 0], [raised |-> FALSE, exit_code |-> 1],
    [raised |-> TRUE, exit_code |-> 0] }

\* Mutant: the system name is not looked at.
IsWslAnySystem(un) == Contains(Lower(un.release), microsoft)

\* Whether the platform is one the fallback is tried on.
IsWsl(un) == Contains(Lower(un.release), microsoft) /\ Lower(un.system) = linux

\* Mutant: the fallback counts as a success whenever the process ran to its end.
open_browserAnyExitCode(url, primary, un, fb) ==
  IF primary
    THEN [url |-> url, primary |-> primary, uname |-> None, fallback |-> None,
          opened |-> primary]
    ELSE IF IsWsl(un)
      THEN [url |-> url, primary |-> primary, uname |-> Some(un),
            fallback |-> Some([timeout |-> FallbackTimeout, outcome |-> fb]),
            opened |-> ~fb.raised]
      ELSE [url |-> url, primary |-> primary, uname |-> Some(un), fallback |-> None,
            opened |-> primary]

\* _open_browser(url): primary is what webbrowser.open(url) returned, un what
\* platform.uname() reports, fb what the fallback process does when it is run.
open_browser(url, primary, un, fb) ==
  IF primary
    THEN [url |-> url, primary |-> primary, uname |-> None, fallback |-> None,
          opened |-> primary]
    ELSE IF IsWsl(un)
      THEN [url |-> url, primary |-> primary, uname |-> Some(un),
            fallback |-> Some([timeout |-> FallbackTimeout, outcome |-> fb]),
            opened |-> IF fb.raised THEN primary ELSE fb.exit_code = 0]
      ELSE [url |-> url, primary |-> primary, uname |-> Some(un), fallback |-> None,
            opened |-> primary]

\* ------------------------------------------------ leaving _request_token
Leave(a, o) ==
  /\ outcomes' = [outcomes EXCEPT ![a] = Append(@, wrap_exceptions(o))]
  /\ pc' = [pc EXCEPT ![a] = "done"]

Log(a, op) == trace' = [trace EXCEPT ![a] = Append(@, Event(a, op))]

\* ------------------------------ InteractiveBrowserCredential._request_token
\* Several callers at once: every attempt is a call of the browser credential.
Concurrent == \A a \in Attempts : callers[a] = "browser"

\* The default configuration: no redirect URI, so every attempt scans the range.
DefaultCfgs ==
  { c \in BrowserCfgs : c.parsed_url = None /\ c.timeout = Some(1) /\ c.scopes = <<"s1">> }

\* The configurations and arguments a call is made with.
BrowserInputs == IF Concurrent THEN DefaultCfgs ELSE BrowserCfgs

\* The call: server = None, redirect_uri = "".
CallBrowser(a) ==
  /\ callers[a] = "browser"
  /\ pc[a] = "idle"
  /\ \E c \in BrowserInputs : cfg' = [cfg EXCEPT ![a] = c]
  /\ pc' = [pc EXCEPT ![a] = "bind"]
  /\ port' = [port EXCEPT ![a] = PortLo]
  /\ UNCHANGED <<envVars, server, redirect_uri, flow, response, outcomes, tried, trace,
                 initiateArgs, exchangeArgs, exchanged, browserLog, deviceVars>>

BindFailedExplicit(uri) ==
  CredentialUnavailableError(Msg("Couldn't start an HTTP server on {}", uri, 0, ""))
BindFailedDefault ==
  CredentialUnavailableError(Msg("Couldn't start an HTTP server on localhost", NoUri, 0, ""))

\* Mutant: the scan also runs when a redirect URI is configured.
UsesScanAlways(a) == cfg[a].kind = "browser"

\* "if self._parsed_url: ... else:": whether the attempt scans for a port.
UsesScan(a) == ~IsSome(cfg[a].parsed_url)

\* if self._parsed_url: one bind of the configured host and port.
BindExplicit(a) ==
  /\ pc[a] = "bind"
  /\ ~UsesScan(a)
  /\ LET u == Get(cfg[a].parsed_url)
         uri == FormatUri(u.hostname, u.port)
         s == ServerClass(u.hostname, u.port, Get(cfg[a].timeout))
     IN /\ redirect_uri' = [redirect_uri EXCEPT ![a] = uri]
        /\ tried' = [tried EXCEPT ![a] =
                       Append(@, [hostname |-> u.hostname, port |-> u.port, ok |-> IsSome(s)])]
        /\ IF IsSome(s)
             THEN /\ server' = [server EXCEPT ![a] = s]
                  /\ pc' = [pc EXCEPT ![a] = "initiate"]
                  /\ UNCHANGED outcomes
             ELSE /\ Leave(a, BindFailedExplicit(uri))
                  /\ UNCHANGED server
  /\ UNCHANGED <<envVars, cfg, port, flow, response, trace, initiateArgs, exchangeArgs, exchanged,
                 browserLog, deviceVars>>

\* Mutant: the scan skips every other port.
NextPortSkip(p) == p + 2

\* Mutant: the scan gives up one port early, as range(8400, 8999) would.
HasNextPortShort(p) == p + 1 < PortStop - 1

\* for port in range(8400, 9000): the port after p, and whether the loop has one.
NextPort(p) == p + 1
HasNextPort(p) == NextPort(p) < PortStop

\* else: one iteration of the scan, and "if not server" when the range is exhausted.
ScanPort(a) ==
  /\ pc[a] = "bind"
  /\ UsesScan(a)
  /\ LET s == ServerClass("localhost", port[a], Get(cfg[a].timeout))
     IN /\ tried' = [tried EXCEPT ![a] =
                       Append(@, [hostname |-> "localhost", port |-> port[a], ok |-> IsSome(s)])]
        /\ IF IsSome(s)
             THEN /\ server' = [server EXCEPT ![a] = s]
                  /\ redirect_uri' = [redirect_uri EXCEPT ![a] = FormatUri("localhost", port[a])]
                  /\ pc' = [pc EXCEPT ![a] = "initiate"]
                  /\ UNCHANGED <<port, outcomes>>
             ELSE IF HasNextPort(port[a])
               THEN /\ port' = [port EXCEPT ![a] = NextPort(@)]
                    /\ UNCHANGED <<server, redirect_uri, pc, outcomes>>
               ELSE /\ Leave(a, BindFailedDefault)
                    /\ UNCHANGED <<server, redirect_uri, port>>
  /\ UNCHANGED <<envVars, cfg, flow, response, trace, initiateArgs, exchangeArgs, exchanged, browserLog,
                 deviceVars>>

\* What app.initiate_auth_code_flow returns for the arguments it is given.
AuthCodeFlows(args) ==
  { [auth_uri |-> Some("https://login/authorize"), state |-> "st1",
     redirect_uri |-> args.redirect_uri, scope |-> args.scopes, error |-> None],
    [auth_uri |-> None, state |-> "", redirect_uri |-> args.redirect_uri,
     scope |-> args.scopes, error |-> Some("invalid_request")] }

\* Mutant: every attempt passes the redirect URI of the first attempt.
InitiateArgumentsShared(a) ==
  [scopes |-> ListOf(cfg[a].scopes), redirect_uri |-> redirect_uri[1],
   prompt |-> "select_account", claims_challenge |-> cfg[a].claims,
   login_hint |-> cfg[a].login_hint]

InitiateArguments(a) ==
  [scopes |-> ListOf(cfg[a].scopes), redirect_uri |-> redirect_uri[a],
   prompt |-> "select_account", claims_challenge |-> cfg[a].claims,
   login_hint |-> cfg[a].login_hint]

\* app.initiate_auth_code_flow(...) and the check of "auth_uri".
InitiateFlow(a) ==
  /\ pc[a] = "initiate"
  /\ Log(a, "initiate_auth_code_flow")
  /\ initiateArgs' = [initiateArgs EXCEPT ![a] = Some(InitiateArguments(a))]
  /\ \/ \E e \in CollaboratorErrors : Leave(a, e) /\ UNCHANGED flow
     \/ \E f \in AuthCodeFlows(InitiateArguments(a)) :
          /\ flow' = [flow EXCEPT ![a] = Some(f)]
          /\ IF ~IsSome(f.auth_uri)
               THEN Leave(a, CredentialUnavailableError(
                               Msg("Failed to begin authentication flow", NoUri, 0, "")))
               ELSE pc' = [pc EXCEPT ![a] = "open"] /\ UNCHANGED outcomes
  /\ UNCHANGED <<envVars, cfg, port, server, redirect_uri, response, tried, exchangeArgs, exchanged,
                 browserLog, deviceVars>>

\* Mutant: the value _open_browser returned is not looked at.
BrowserOpenedAlways(r) == TRUE

\* The truth of what _open_browser returned.
BrowserOpened(r) == r.opened

\* if not _open_browser(flow["auth_uri"])
OpenBrowser(a) ==
  /\ pc[a] = "open"
  /\ Log(a, "open_browser")
  /\ \E primary \in BOOLEAN, un \in Unames, fb \in FallbackOutcomes :
       LET r == open_browser(Get(Get(flow[a]).auth_uri), primary, un, fb)
       IN /\ browserLog' = [browserLog EXCEPT ![a] = Some(r)]
          /\ IF ~BrowserOpened(r)
               THEN Leave(a, CredentialUnavailableError(
                               Msg("Failed to open a browser", NoUri, 0, "")))
               ELSE pc' = [pc EXCEPT ![a] = "wait"] /\ UNCHANGED outcomes
  /\ UNCHANGED <<envVars, cfg, port, server, redirect_uri, flow, response, tried,
                 initiateArgs, exchangeArgs, exchanged, deviceVars>>

\* The query parameters of a redirect the listener received.
RedirectParams ==
  { [code |-> "c1", state |-> "st1", error |-> ""],
    [code |-> "", state |-> "st1", error |-> "access_denied"] }

\* Mutant: the timeout is classified without looking at within_dac.
TimeoutFailureNoChain(within_dac, timeout) ==
  Raised("ClientAuthenticationError",
         [fmt |-> "Timed out after waiting {} seconds for the user to authenticate",
          uri |-> NoUri, n |-> timeout, s |-> ""])

\* The failure for a wait that ended without a redirect.
TimeoutFailure(within_dac, timeout) ==
  IF within_dac
    THEN CredentialUnavailableError(
           Msg("Timed out after waiting {} seconds for the user to authenticate",
               NoUri, timeout, ""))
    ELSE ClientAuthenticationError(
           Msg("Timed out after waiting {} seconds for the user to authenticate",
               NoUri, timeout, ""))

\* server.wait_for_redirect(): the parameters of the one request served, or the
\* empty dict after the timeout; the listener closes its socket either way.
wait_for_redirect(s) ==
  { [server |-> Closed(s), response |-> r] :
      r \in {None} \cup { Some(q) : q \in RedirectParams } }

\* response = server.wait_for_redirect() and "if not response".
WaitForRedirect(a) ==
  /\ pc[a] = "wait"
  /\ Log(a, "wait_for_redirect")
  /\ \E w \in wait_for_redirect(server[a]) :
       /\ server' = [server EXCEPT ![a] = w.server]
       /\ response' = [response EXCEPT ![a] = w.response]
       /\ IF ~IsSome(w.response)
            THEN Leave(a, TimeoutFailure(cfg[a].within_dac, Get(cfg[a].timeout)))
            ELSE pc' = [pc EXCEPT ![a] = "exchange"] /\ UNCHANGED outcomes
  /\ UNCHANGED <<envVars, cfg, port, redirect_uri, flow, tried, initiateArgs, exchangeArgs, exchanged,
                 browserLog, deviceVars>>

\* What app.acquire_token_by_auth_code_flow returns: a token, or the error the
\* authority answered with.
TokenResults ==
  { [access_token |-> Some("token"), error |-> None],
    [access_token |-> None, error |-> Some("invalid_grant")] }

\* Mutant: the redirect's state parameter is dropped before the exchange.
ExchangeArgumentsNoState(a) ==
  [flow |-> Get(flow[a]), response |-> [Get(response[a]) EXCEPT !.state = ""],
   scopes |-> ListOf(cfg[a].scopes), claims_challenge |-> cfg[a].claims]

ExchangeArguments(a) ==
  [flow |-> Get(flow[a]), response |-> Get(response[a]),
   scopes |-> ListOf(cfg[a].scopes), claims_challenge |-> cfg[a].claims]

\* Mutant: an error of the exchange is re-raised as ClientAuthenticationError.
RedeemedReclassified(o) ==
  IF o.kind = "raise" THEN Raised("ClientAuthenticationError", o.message) ELSE o

\* "return app.acquire_token_by_auth_code_flow(...)": what leaves _request_token
\* when the call returned or raised o.
Redeemed(o) == o

\* return app.acquire_token_by_auth_code_flow(flow, response, scopes=..., claims_challenge=...)
Exchange(a) ==
  /\ pc[a] = "exchange"
  /\ Log(a, "acquire_token_by_auth_code_flow")
  /\ exchangeArgs' = [exchangeArgs EXCEPT ![a] = Some(ExchangeArguments(a))]
  /\ \E o \in CollaboratorErrors \cup { Returned(r) : r \in TokenResults } :
       /\ exchanged' = [exchanged EXCEPT ![a] = Some(o)]
       /\ Leave(a, Redeemed(o))
  /\ UNCHANGED <<envVars, cfg, port, server, redirect_uri, flow, response, tried,
                 initiateArgs, browserLog, deviceVars>>

\* ------------------------------------- DeviceCodeCredential._request_token
DeviceTimeouts == {None, Some(0), Some(1), Some(2)}
ExpiresIn == {1, 2}

\* DeviceCodeCredential.__init__ and the arguments of one call.
DeviceCfgs ==
  { [kind |-> "device", parsed_url |-> None, timeout |-> t, scopes |-> c.scopes,
     claims |-> c.claims, login_hint |-> None, within_dac |-> d, prompt_callback |-> cb] :
       t \in DeviceTimeouts, c \in CallArgs, d \in BOOLEAN, cb \in BOOLEAN }

CallDevice(a) ==
  /\ callers[a] = "device"
  /\ pc[a] = "idle"
  /\ \E c \in DeviceCfgs : cfg' = [cfg EXCEPT ![a] = c]
  /\ pc' = [pc EXCEPT ![a] = "initiate_device"]
  /\ UNCHANGED <<envVars, browserVars, flow, outcomes, trace, deviceVars>>

\* What app.initiate_device_flow returns at clock t: a device code, or an error.
DeviceFlows(t) ==
  { [error |-> None, error_description |-> None, verification_uri |-> "https://login/device",
     user_code |-> "ABCD", expires_in |-> e, expires_at |-> t + e * TicksPerSec,
     message |-> "To sign in, enter the code ABCD"] : e \in ExpiresIn }
  \cup
  { [error |-> Some("invalid_client"), error_description |-> d, verification_uri |-> "",
     user_code |-> "", expires_in |-> 0, expires_at |-> 0, message |-> ""] :
       d \in {None, Some(""), Some("unknown client")} }

\* Mutant: the description is never used.
ErrorTextErrorOnly(f) == Get(f.error)

\* flow.get("error_description") or flow.get("error")
ErrorText(f) ==
  IF IsSome(f.error_description) /\ Get(f.error_description) # ""
    THEN Get(f.error_description)
    ELSE Get(f.error)

\* flow = app.initiate_device_flow(scopes) and the check of "error".
InitiateDeviceFlow(a) ==
  /\ pc[a] = "initiate_device"
  /\ Log(a, "initiate_device_flow")
  /\ \/ \E e \in CollaboratorErrors : Leave(a, e) /\ UNCHANGED flow
     \/ \E f \in DeviceFlows(now) :
          /\ flow' = [flow EXCEPT ![a] = Some(f)]
          /\ IF IsSome(f.error)
               THEN Leave(a, ClientAuthenticationError(
                               Msg("Couldn't begin authentication: {}", NoUri, 0, ErrorText(f))))
               ELSE pc' = [pc EXCEPT ![a] = "prompt"] /\ UNCHANGED outcomes
  /\ UNCHANGED <<envVars, cfg, browserVars, deviceVars>>

\* datetime.utcfromtimestamp(t)
utcfromtimestamp(t) == [tz |-> "UTC", seconds |-> t \div TicksPerSec, ticks |-> t % TicksPerSec]
NoDate == [tz |-> "", seconds |-> 0, ticks |-> 0]

\* Mutant: the message is printed whether or not there is a callback.
PresentationAlwaysPrint(callback, f) ==
  [via |-> "print", verification_uri |-> "", user_code |-> "", expires_on |-> NoDate,
   message |-> f.message]

\* The presentation of the device code: the callback when there is one, print otherwise.
Presentation(callback, f) ==
  IF callback
    THEN [via |-> "prompt_callback", verification_uri |-> f.verification_uri,
          user_code |-> f.user_code, expires_on |-> utcfromtimestamp(f.expires_at),
          message |-> ""]
    ELSE [via |-> "print", verification_uri |-> "", user_code |-> "", expires_on |-> NoDate,
          message |-> f.message]

\* if self._prompt_callback: ... else: print(flow["message"])
Prompt(a) ==
  /\ pc[a] = "prompt"
  /\ prompts' = [prompts EXCEPT ![a] = Append(@, Presentation(cfg[a].prompt_callback,
                                                               Get(flow[a])))]
  /\ \/ pc' = [pc EXCEPT ![a] = "start_poll"] /\ UNCHANGED outcomes
     \/ cfg[a].prompt_callback /\ \E e \in CollaboratorErrors : Leave(a, e)
  /\ UNCHANGED <<envVars, cfg, browserVars, flow, trace, now, deadline, deadlineAt, pollArgs,
                 result>>

\* Mutant: a timeout equal to expires_in also sets a deadline.
UsesDeadlineOrEqual(timeout, expires_in) == timeout # <<>> /\ timeout[1] <= expires_in

\* if self._timeout is not None and self._timeout < flow["expires_in"]
UsesDeadline(timeout, expires_in) == IsSome(timeout) /\ Get(timeout) < expires_in

\* Mutant: the clock is rounded up to the next whole second.
DeadlineRoundedUp(t, timeout) == ((t + TicksPerSec - 1) \div TicksPerSec) + timeout

\* int(time.time()) + self._timeout
Deadline(t, timeout) == (t \div TicksPerSec) + timeout

\* The call of app.acquire_token_by_device_flow, with or without exit_condition.
StartPoll(a) ==
  /\ pc[a] = "start_poll"
  /\ Log(a, "acquire_token_by_device_flow")
  /\ IF UsesDeadline(cfg[a].timeout, Get(flow[a]).expires_in)
       THEN /\ deadline' = [deadline EXCEPT ![a] = Some(Deadline(now, Get(cfg[a].timeout)))]
            /\ deadlineAt' = [deadlineAt EXCEPT ![a] = Some(now)]
            /\ pollArgs' = [pollArgs EXCEPT ![a] =
                              Some([flow |-> Get(flow[a]), exit_condition |-> "deadline",
                                    claims_challenge |-> cfg[a].claims])]
       ELSE /\ pollArgs' = [pollArgs EXCEPT ![a] =
                              Some([flow |-> Get(flow[a]), exit_condition |-> "default",
                                    claims_challenge |-> cfg[a].claims])]
            /\ UNCHANGED <<deadline, deadlineAt>>
  /\ pc' = [pc EXCEPT ![a] = "poll"]
  /\ UNCHANGED <<envVars, cfg, browserVars, flow, outcomes, now, result, prompts>>

\* lambda flow: time.time() > deadline
exit_condition(t, d) == t > d * TicksPerSec

\* The exit condition MSAL polls with when it is given none: the code has expired.
default_exit_condition(t, f) == f.expires_at < t

PendingResult == [access_token |-> None, error |-> Some("authorization_pending")]

\* What the authority answers a poll with when it is not "authorization_pending".
DeviceResults ==
  { [access_token |-> Some("token"), error |-> None],
    [access_token |-> None, error |-> Some("access_denied")],
    [access_token |-> None, error |-> Some("expired_token")],
    [access_token |-> Some("token"), error |-> Some("authorization_pending")] }

\* Mutant: the poll loop is not given the deadline and stops at the expiry only.
ExitNowAtExpiry(a) == default_exit_condition(now, Get(pollArgs[a]).flow)

\* Whether the exit condition the poll loop was given holds now.
ExitNow(a) ==
  IF Get(pollArgs[a]).exit_condition = "deadline"
    THEN exit_condition(now, Get(deadline[a]))
    ELSE default_exit_condition(now, Get(pollArgs[a]).flow)

\* One round of MSAL's poll loop: an answer that ends it, an error, or a pending
\* answer returned because the exit condition holds.
Poll(a) ==
  /\ pc[a] = "poll"
  /\ \/ \E r \in DeviceResults :
          /\ result' = [result EXCEPT ![a] = Some(r)]
          /\ pc' = [pc EXCEPT ![a] = "check_result"]
          /\ UNCHANGED outcomes
     \/ /\ ExitNow(a)
        /\ result' = [result EXCEPT ![a] = Some(PendingResult)]
        /\ pc' = [pc EXCEPT ![a] = "check_result"]
        /\ UNCHANGED outcomes
     \/ \E e \in CollaboratorErrors : Leave(a, e) /\ UNCHANGED result
  /\ UNCHANGED <<envVars, cfg, browserVars, flow, trace, now, deadline, deadlineAt, pollArgs,
                 prompts>>

\* Mutant: a pending error counts as a timeout even when a token came with it.
IsTimeoutAnyPending(r) == r.error = <<"authorization_pending">>

\* Mutant: the pending result is never taken for a timeout.
IsTimeoutNever(r) == FALSE

\* "access_token" not in result and result.get("error") == "authorization_pending"
IsTimeout(r) == ~IsSome(r.access_token) /\ r.error = Some("authorization_pending")

\* Mutant: inside a credential chain the timeout is a CredentialUnavailableError.
CheckResultChainAware(a) ==
  /\ pc[a] = "check_result"
  /\ IF IsTimeout(Get(result[a]))
       THEN Leave(a, Raised(IF cfg[a].within_dac THEN "CredentialUnavailableError"
                                                 ELSE "ClientAuthenticationError",
                            Msg("Timed out waiting for user to authenticate", NoUri, 0, "")))
       ELSE Leave(a, Returned(Get(result[a])))
  /\ UNCHANGED <<envVars, cfg, browserVars, flow, trace, deviceVars>>

\* The check after polling, and return result.
CheckResult(a) ==
  /\ pc[a] = "check_result"
  /\ IF IsTimeout(Get(result[a]))
       THEN Leave(a, ClientAuthenticationError(
                       Msg("Timed out waiting for user to authenticate", NoUri, 0, "")))
       ELSE Leave(a, Returned(Get(result[a])))
  /\ UNCHANGED <<envVars, cfg, browserVars, flow, trace, deviceVars>>

\* The clock advances while a device-code attempt is under way.
Tick ==
  /\ \E a \in Attempts : cfg[a].kind = "device" /\ pc[a] \notin {"idle", "done"}
  /\ now < MaxTime
  /\ now' = now + 1
  /\ UNCHANGED <<envVars, pc, cfg, browserVars, flow, outcomes, trace, deadline, deadlineAt,
                 pollArgs, result, prompts>>

\* ----------------------------------------------------------- other processes
Binding == \E a \in Attempts : pc[a] = "bind"

EnvTake(p) ==
  /\ Binding
  /\ envChanges < MaxEnvChanges
  /\ CanBind(p)
  /\ occupied' = occupied \cup {p}
  /\ envChanges' = envChanges + 1
  /\ UNCHANGED <<callers, pc, cfg, port, server, redirect_uri, flow, response, outcomes,
                 tried, trace, initiateArgs, exchangeArgs, exchanged, browserLog, deviceVars>>

EnvFree(p) ==
  /\ Binding
  /\ envChanges < MaxEnvChanges
  /\ p \in occupied
  /\ occupied' = occupied \ {p}
  /\ envChanges' = envChanges + 1
  /\ UNCHANGED <<callers, pc, cfg, port, server, redirect_uri, flow, response, outcomes,
                 tried, trace, initiateArgs, exchangeArgs, exchanged, browserLog, deviceVars>>

\* ------------------------------------------------------------ specification
InitAttempts ==
  /\ envChanges = 0
  /\ pc = [a \in Attempts |-> "idle"]
  /\ cfg = [a \in Attempts |-> NoCfg]
  /\ port = [a \in Attempts |-> PortLo]
  /\ server = [a \in Attempts |-> None]
  /\ redirect_uri = [a \in Attempts |-> NoUri]
  /\ flow = [a \in Attempts |-> None]
  /\ response = [a \in Attempts |-> None]
  /\ outcomes = [a \in Attempts |-> <<>>]
  /\ tried = [a \in Attempts |-> <<>>]
  /\ trace = [a \in Attempts |-> <<>>]
  /\ initiateArgs = [a \in Attempts |-> None]
  /\ exchangeArgs = [a \in Attempts |-> None]
  /\ exchanged = [a \in Attempts |-> None]
  /\ browserLog = [a \in Attempts |-> None]
  /\ now = 0
  /\ deadline = [a \in Attempts |-> None]
  /\ deadlineAt = [a \in Attempts |-> None]
  /\ pollArgs = [a \in Attempts |-> None]
  /\ result = [a \in Attempts |-> None]
  /\ prompts = [a \in Attempts |-> <<>>]

\* One caller: of the browser credential on a host with any of the port
\* occupations, or of the device-code credential, which uses no port.
Init ==
  /\ \E k \in {"browser", "device"} :
       /\ callers = [a \in Attempts |-> IF a = 1 THEN k ELSE ""]
       /\ occupied \in IF k = "browser" THEN OccupiedChoices ELSE {{}}
  /\ InitAttempts

Next ==
  \/ \E a \in Attempts : CallBrowser(a)
  \/ \E a \in Attempts : BindExplicit(a)
  \/ \E a \in Attempts : ScanPort(a)
  \/ \E a \in Attempts : InitiateFlow(a)
  \/ \E a \in Attempts : OpenBrowser(a)
  \/ \E a \in Attempts : WaitForRedirect(a)
  \/ \E a \in Attempts : Exchange(a)
  \/ \E a \in Attempts : CallDevice(a)
  \/ \E a \in Attempts : InitiateDeviceFlow(a)
  \/ \E a \in Attempts : Prompt(a)
  \/ \E a \in Attempts : StartPoll(a)
  \/ \E a \in Attempts : Poll(a)
  \/ \E a \in Attempts : CheckResult(a)
  \/ Tick
  \/ \E p \in EnvPorts : EnvTake(p)
  \/ \E p \in EnvPorts : EnvFree(p)

Spec == Init /\ [][Next]_vars

\* Several threads call _request_token of the browser credential at once, on a
\* host where other processes hold the first ports of the range.
InitConc ==
  /\ callers = [a \in Attempts |-> "browser"]
  /\ occupied \in {Prefix(0), Prefix(1)}
  /\ InitAttempts

NextConc ==
  \/ \E a \in Attempts : CallBrowser(a)
  \/ \E a \in Attempts : ScanPort(a)
  \/ \E a \in Attempts : InitiateFlow(a)
  \/ \E a \in Attempts : OpenBrowser(a)
  \/ \E a \in Attempts : WaitForRedirect(a)
  \/ \E a \in Attempts : Exchange(a)
  \/ \E p \in EnvPorts : EnvTake(p)
  \/ \E p \in EnvPorts : EnvFree(p)

SpecConc == InitConc /\ [][NextConc]_vars

\* ================================================================ properties
Last(q) == q[Len(q)]
Explicit(a) == cfg[a].kind = "browser" /\ IsSome(cfg[a].parsed_url)
Default(a) == cfg[a].kind = "browser" /\ ~IsSome(cfg[a].parsed_url)
Min(S) == CHOOSE x \in S : \A y \in S : x <= y

\* C1: with an explicit redirect target the attempt binds at most once, on the
\* configured host and port and on no other; when that bind fails the attempt
\* ends at once with CredentialUnavailableError, having called nothing else.
C1_ExplicitBindOnce ==
  \A a \in Attempts :
    Explicit(a) =>
      /\ Len(tried[a]) <= 1
      /\ \A i \in 1..Len(tried[a]) :
           /\ tried[a][i].hostname = Get(cfg[a].parsed_url).hostname
           /\ tried[a][i].port = Get(cfg[a].parsed_url).port
      /\ (Len(tried[a]) = 1 /\ ~tried[a][1].ok) =>
           /\ pc[a] = "done"
           /\ Len(outcomes[a]) = 1
           /\ outcomes[a][1].kind = "raise"
           /\ outcomes[a][1].type = "CredentialUnavailableError"
           /\ trace[a] = <<>>
           /\ ~IsSome(server[a])

C1_Witness ==
  \E a \in Attempts :
    /\ Explicit(a)
    /\ Get(cfg[a].parsed_url).port \in occupied
    /\ tried[a] = << [hostname |-> Get(cfg[a].parsed_url).hostname,
                      port |-> Get(cfg[a].parsed_url).port, ok |-> FALSE] >>
    /\ pc[a] = "done"
    /\ outcomes[a][1].type = "CredentialUnavailableError"

\* C2: in the default configuration the i-th bind is on localhost, port
\* 8400 + i - 1; only the last bind made can have succeeded; the listener is on
\* the port of that last bind, which never exceeds 8999; and on a host whose
\* occupation did not change the listener is on the lowest free port of the range
\* (8406 when 8400..8405 are occupied).
C2_ScanLowestFree ==
  \A a \in Attempts :
    Default(a) =>
      /\ \A i \in 1..Len(tried[a]) :
           /\ tried[a][i].hostname = "localhost"
           /\ tried[a][i].port = 8400 + i - 1
           /\ tried[a][i].port <= 8999
           /\ (i < Len(tried[a]) => ~tried[a][i].ok)
      /\ IsSome(server[a]) =>
           /\ Len(tried[a]) >= 1
           /\ Last(tried[a]).ok
           /\ Get(server[a]).port = Last(tried[a]).port
           /\ Get(server[a]).hostname = "localhost"
           /\ (envChanges = 0 =>
                 Get(server[a]).port = Min((8400..8999) \ occupied))
      /\ (pc[a] # "bind" /\ pc[a] # "idle" /\ ~IsSome(server[a])) =>
           \A i \in 1..Len(tried[a]) : ~tried[a][i].ok

C2_Witness ==
  \E a \in Attempts :
    /\ Default(a)
    /\ envChanges = 0
    /\ occupied = 8400..8405
    /\ Listening(a)
    /\ Get(server[a]).port = 8406
    /\ Len(tried[a]) = 7

\* C3: in the default configuration at most 600 binds are made; when the bind of
\* port 8999 fails the attempt has tried every port of 8400..8999 exactly once and
\* ends with CredentialUnavailableError without having called the flow initiator,
\* the browser or the listener's wait; and an attempt that ended for want of a
\* listener had tried all 600 ports.
C3_ScanExhausted ==
  \A a \in Attempts :
    Default(a) =>
      /\ Len(tried[a]) <= 600
      /\ (Len(tried[a]) = 600 /\ ~Last(tried[a]).ok) =>
           /\ pc[a] = "done"
           /\ outcomes[a] = << BindFailedDefault >>
           /\ outcomes[a][1].type = "CredentialUnavailableError"
           /\ trace[a] = <<>>
           /\ ~IsSome(server[a])
           /\ \A p \in 8400..8999 :
                Cardinality({ i \in 1..Len(tried[a]) : tried[a][i].port = p }) = 1
      /\ (pc[a] = "done" /\ ~IsSome(server[a])) =>
           /\ Len(tried[a]) = 600
           /\ outcomes[a] = << BindFailedDefault >>

C3_Witness ==
  \E a \in Attempts :
    /\ Default(a)
    /\ Len(tried[a]) = 600
    /\ \A i \in 1..600 : ~tried[a][i].ok
    /\ pc[a] = "done"
    /\ outcomes[a] = << BindFailedDefault >>

\* C4: the flow initiator and the browser are only ever called while this attempt's
\* listener is bound, and the redirect URI given to the flow initiator is
\* "http://{host}:{port}" of the host and port the listener was bound on.
C4_ListenerBeforeBrowser ==
  \A a \in Attempts :
    /\ \A i \in 1..Len(trace[a]) :
         trace[a][i].op \in {"initiate_auth_code_flow", "open_browser"} =>
           trace[a][i].listening
    /\ IsSome(initiateArgs[a]) =>
         /\ IsSome(server[a])
         /\ Get(initiateArgs[a]).redirect_uri =
              [scheme |-> "http", host |-> Get(server[a]).hostname,
               port |-> Get(server[a]).port]
    /\ IsSome(browserLog[a]) => IsSome(initiateArgs[a])
    /\ pc[a] \in {"initiate", "open"} => Listening(a)

C4_Witness ==
  \E a \in Attempts :
    /\ IsSome(browserLog[a])
    /\ Get(browserLog[a]).opened
    /\ Listening(a)
    /\ Get(server[a]).port = 8403
    /\ Get(initiateArgs[a]).redirect_uri = [scheme |-> "http", host |-> "localhost", port |-> 8403]

TimeoutFmt == "Timed out after waiting {} seconds for the user to authenticate"
TimedOut(a) ==
  /\ Len(trace[a]) >= 1
  /\ Last(trace[a]).op = "wait_for_redirect"
  /\ ~IsSome(response[a])

\* C5: when wait_for_redirect returned nothing the attempt ends with
\* CredentialUnavailableError inside a credential chain and with
\* ClientAuthenticationError outside one, both with the same message naming the
\* configured timeout; no browser attempt that ended otherwise carries that message.
C5_TimeoutClassified ==
  \A a \in Attempts :
    cfg[a].kind = "browser" =>
      /\ TimedOut(a) =>
           /\ pc[a] = "done"
           /\ Len(outcomes[a]) = 1
           /\ outcomes[a][1].kind = "raise"
           /\ outcomes[a][1].type =
                (IF cfg[a].within_dac THEN "CredentialUnavailableError"
                                      ELSE "ClientAuthenticationError")
           /\ outcomes[a][1].message = Msg(TimeoutFmt, NoUri, Get(cfg[a].timeout), "")
      /\ \A i \in 1..Len(outcomes[a]) :
           outcomes[a][i].message.fmt = TimeoutFmt => TimedOut(a)

C5_Witness ==
  \E a \in Attempts :
    /\ cfg[a].kind = "browser"
    /\ cfg[a].within_dac
    /\ TimedOut(a)
    /\ outcomes[a] = << CredentialUnavailableError(Msg(TimeoutFmt, NoUri, 1, "")) >>

\* C6: once _request_token has returned or raised, the attempt holds no bound
\* port, whichever statement it left by.
C6_ListenerReleased ==
  \A a \in Attempts : pc[a] = "done" => ~Listening(a)

FailureKinds == {"CredentialUnavailableError", "ClientAuthenticationError"}

\* No failure was detected on the way to a returned result.
NoFailureDetected(a) ==
  IF cfg[a].kind = "browser"
    THEN /\ IsSome(flow[a]) /\ IsSome(Get(flow[a]).auth_uri)
         /\ IsSome(browserLog[a]) /\ Get(browserLog[a]).opened
         /\ IsSome(response[a])
    ELSE /\ IsSome(flow[a]) /\ ~IsSome(Get(flow[a]).error)
         /\ IsSome(result[a])
         /\ ~(Get(result[a]).access_token = None
              /\ Get(result[a]).error = Some("authorization_pending"))

ExactlyOneOutcome(a) ==
  /\ Len(outcomes[a]) <= 1
  /\ pc[a] = "done" <=> Len(outcomes[a]) = 1
  /\ \A i \in 1..Len(outcomes[a]) :
       outcomes[a][i].kind = "return" => NoFailureDetected(a)

\* C7 as stated: every attempt ends in exactly one outcome, which is a returned
\* result, a CredentialUnavailableError or a ClientAuthenticationError.
C7_OneOfThreeOutcomes ==
  \A a \in Attempts :
    /\ ExactlyOneOutcome(a)
    /\ \A i \in 1..Len(outcomes[a]) :
         \/ outcomes[a][i].kind = "return"
         \/ outcomes[a][i].kind = "raise" /\ outcomes[a][i].type \in FailureKinds

\* C7 as amended: every attempt ends in exactly one outcome, which is a returned
\* result, a CredentialUnavailableError, a ClientAuthenticationError, or the error
\* a collaborator raised, unchanged; a result is returned only when no failure was
\* detected.
C7_OneOutcome ==
  \A a \in Attempts :
    /\ ExactlyOneOutcome(a)
    /\ \A i \in 1..Len(outcomes[a]) :
         \/ outcomes[a][i].kind = "return"
         \/ outcomes[a][i].kind = "raise" /\ outcomes[a][i].type \in FailureKinds
         \/ outcomes[a][i] \in CollaboratorErrors

C7_Witness ==
  \E a \in Attempts :
    /\ pc[a] = "done"
    /\ cfg[a].kind = "device"
    /\ Len(outcomes[a]) = 1
    /\ outcomes[a][1] \in CollaboratorErrors
    /\ IsSome(pollArgs[a])

\* C8: the token exchange is called with the parameters the listener returned, the
\* flow the initiator returned in this attempt, and the attempt's scopes and claims.
C8_ExchangeInputs ==
  \A a \in Attempts :
    IsSome(exchangeArgs[a]) =>
      /\ IsSome(response[a]) /\ IsSome(flow[a]) /\ IsSome(initiateArgs[a])
      /\ Get(exchangeArgs[a]).response = Get(response[a])
      /\ Get(exchangeArgs[a]).response \in RedirectParams
      /\ Get(exchangeArgs[a]).flow = Get(flow[a])
      /\ Get(exchangeArgs[a]).flow \in AuthCodeFlows(Get(initiateArgs[a]))
      /\ Get(exchangeArgs[a]).scopes = cfg[a].scopes
      /\ Get(exchangeArgs[a]).scopes = Get(initiateArgs[a]).scopes
      /\ Get(exchangeArgs[a]).claims_challenge = cfg[a].claims

C8_Witness ==
  \E a \in Attempts :
    /\ IsSome(exchangeArgs[a])
    /\ Get(exchangeArgs[a]).response = [code |-> "c1", state |-> "st1", error |-> ""]
    /\ Get(exchangeArgs[a]).scopes = <<"s1", "s2">>
    /\ Get(exchangeArgs[a]).claims_challenge = Some("c1")
    /\ Get(exchangeArgs[a]).flow.redirect_uri.port = 8401

\* C9: what acquire_token_by_auth_code_flow returned is what _request_token
\* returns, and what it raised is what _request_token raises; an attempt that
\* received a redirect ends in no other way.
C9_ExchangeVerbatim ==
  \A a \in Attempts :
    /\ IsSome(exchanged[a]) =>
         /\ pc[a] = "done"
         /\ outcomes[a] = << Get(exchanged[a]) >>
    /\ (cfg[a].kind = "browser" /\ pc[a] = "done" /\ IsSome(response[a])) =>
         IsSome(exchanged[a])

C9_Witness ==
  \E a \in Attempts :
    /\ IsSome(response[a])
    /\ exchanged[a] = Some(Raised("ValueError", Msg("state mismatch", NoUri, 0, "")))
    /\ outcomes[a] = << Raised("ValueError", Msg("state mismatch", NoUri, 0, "")) >>

\* C10: acquire_token_by_device_flow is given the deadline exit condition exactly
\* when a timeout is configured and is strictly less than the flow's expires_in;
\* otherwise it is called with no exit condition and no deadline is computed.
C10_DeadlineIffShorter ==
  \A a \in Attempts :
    IsSome(pollArgs[a]) =>
      /\ Get(pollArgs[a]).exit_condition = "deadline" <=>
           (cfg[a].timeout # None /\ Get(cfg[a].timeout) < Get(flow[a]).expires_in)
      /\ Get(pollArgs[a]).exit_condition \in {"deadline", "default"}
      /\ IsSome(deadline[a]) <=> Get(pollArgs[a]).exit_condition = "deadline"

C10_Witness ==
  \E a \in Attempts :
    /\ IsSome(pollArgs[a])
    /\ cfg[a].timeout = Some(2)
    /\ Get(flow[a]).expires_in = 2
    /\ Get(pollArgs[a]).exit_condition = "default"
    /\ deadline[a] = None

DeviceTimedOut ==
  [kind |-> "raise", type |-> "ClientAuthenticationError",
   message |-> [fmt |-> "Timed out waiting for user to authenticate", uri |-> NoUri,
                n |-> 0, s |-> ""],
   value |-> None]
Pending(r) == r.access_token = None /\ r.error = Some("authorization_pending")
UnderDeadline(a) ==
  /\ cfg[a].kind = "device"
  /\ IsSome(pollArgs[a])
  /\ Get(pollArgs[a]).exit_condition = "deadline"

\* C11: with a timeout shorter than expires_in and no answer but
\* "authorization_pending", the poll loop is stopped by the caller's deadline: the
\* pending result is only returned after the deadline, the loop can stop as soon as
\* timeout seconds have passed since polling began, whatever the expiry of the
\* code, and the attempt then fails with ClientAuthenticationError "Timed out
\* waiting for user to authenticate", which is not what an attempt the authority
\* rejected ends with.
C11_DeadlineStopsPolling ==
  \A a \in Attempts :
    UnderDeadline(a) =>
      /\ Get(cfg[a].timeout) < Get(flow[a]).expires_in
      /\ (pc[a] = "poll" /\ now > Get(deadlineAt[a]) + Get(cfg[a].timeout) * TicksPerSec)
           => ExitNow(a)
      /\ (pc[a] = "poll" /\ now <= Get(deadlineAt[a]) + (Get(cfg[a].timeout) - 1) * TicksPerSec)
           => ~ExitNow(a)
      /\ (IsSome(result[a]) /\ Pending(Get(result[a]))) =>
           /\ now > Get(deadlineAt[a]) + (Get(cfg[a].timeout) - 1) * TicksPerSec
           /\ pc[a] = "done" => outcomes[a] = << DeviceTimedOut >>
      /\ (pc[a] = "done" /\ IsSome(result[a])
            /\ Get(result[a]).error \in {Some("access_denied"), Some("expired_token")}) =>
           /\ outcomes[a] # << DeviceTimedOut >>
           /\ outcomes[a][1].kind = "return"

C11_Witness ==
  \E a \in Attempts :
    /\ UnderDeadline(a)
    /\ cfg[a].timeout = Some(1)
    /\ Get(flow[a]).expires_in = 2
    /\ result[a] = Some([access_token |-> None, error |-> Some("authorization_pending")])
    /\ now <= Get(flow[a]).expires_at
    /\ pc[a] = "done"
    /\ outcomes[a] = << DeviceTimedOut >>

\* C12: a device-code attempt that got a poll result ends with
\* ClientAuthenticationError "Timed out waiting for user to authenticate" exactly
\* when the result has no access token and its error is "authorization_pending";
\* every other result is returned as it is.
C12_TimeoutIffPending ==
  \A a \in Attempts :
    cfg[a].kind = "device" =>
      /\ (pc[a] = "done" /\ IsSome(result[a])) =>
           IF Pending(Get(result[a]))
             THEN outcomes[a] = << DeviceTimedOut >>
             ELSE outcomes[a] = << [kind |-> "return", type |-> "", message |-> NoMsg,
                                    value |-> Some(Get(result[a]))] >>
      /\ \A i \in 1..Len(outcomes[a]) :
           outcomes[a][i] = DeviceTimedOut => (IsSome(result[a]) /\ Pending(Get(result[a])))

C12_Witness ==
  \E a \in Attempts :
    /\ cfg[a].kind = "device"
    /\ pc[a] = "done"
    /\ result[a] = Some([access_token |-> Some("token"), error |-> Some("authorization_pending")])
    /\ outcomes[a][1].kind = "return"
    /\ outcomes[a][1].value = result[a]

\* What attempt a ends with, read from what that attempt itself received.
OwnOutcome(a) ==
  IF IsSome(exchanged[a]) THEN Get(exchanged[a])
  ELSE IF Len(trace[a]) = 3 /\ response[a] = None
    THEN [kind |-> "raise",
          type |-> IF cfg[a].within_dac THEN "CredentialUnavailableError"
                                        ELSE "ClientAuthenticationError",
          message |-> [fmt |-> "Timed out after waiting {} seconds for the user to authenticate",
                       uri |-> NoUri, n |-> Get(cfg[a].timeout), s |-> ""],
          value |-> None]
  ELSE IF IsSome(browserLog[a]) /\ ~Get(browserLog[a]).opened
    THEN [kind |-> "raise", type |-> "CredentialUnavailableError",
          message |-> [fmt |-> "Failed to open a browser", uri |-> NoUri, n |-> 0, s |-> ""],
          value |-> None]
  ELSE IF IsSome(flow[a]) /\ Get(flow[a]).auth_uri = None
    THEN [kind |-> "raise", type |-> "CredentialUnavailableError",
          message |-> [fmt |-> "Failed to begin authentication flow", uri |-> NoUri, n |-> 0,
                       s |-> ""],
          value |-> None]
  ELSE outcomes[a][1]

Acted(a) == pc'[a] # pc[a] \/ trace'[a] # trace[a] \/ tried'[a] # tried[a]
Own(a) ==
  <<pc[a], cfg[a], port[a], server[a], redirect_uri[a], flow[a], response[a], outcomes[a],
    tried[a], trace[a], initiateArgs[a], exchangeArgs[a], exchanged[a], browserLog[a]>>
OwnPrimed(a) ==
  <<pc'[a], cfg'[a], port'[a], server'[a], redirect_uri'[a], flow'[a], response'[a],
    outcomes'[a], tried'[a], trace'[a], initiateArgs'[a], exchangeArgs'[a], exchanged'[a],
    browserLog'[a]>>

OwnListener ==
  \A a \in Attempts :
    /\ \A b \in Attempts \ {a} :
         (Listening(a) /\ Listening(b)) => Get(server[a]).port # Get(server[b]).port
    /\ Listening(a) => Get(server[a]).port \notin occupied
    /\ IsSome(server[a]) =>
         /\ Get(server[a]).port \in ScanPorts
         /\ redirect_uri[a] = [scheme |-> "http", host |-> "localhost",
                               port |-> Get(server[a]).port]
    /\ IsSome(initiateArgs[a]) =>
         /\ IsSome(server[a])
         /\ Get(initiateArgs[a]).redirect_uri.port = Get(server[a]).port
    /\ (pc[a] = "done" /\ IsSome(server[a])) =>
         /\ Len(outcomes[a]) = 1
         /\ outcomes[a][1] = OwnOutcome(a)
         /\ IsSome(initiateArgs[a])
         /\ (flow[a] = None /\ exchanged[a] = None) => outcomes[a][1].type \in {"ValueError", "ConnectionError"}

OwnStep ==
  \A a \in Attempts : \A b \in Attempts \ {a} : Acted(b) => OwnPrimed(a) = Own(a)

\* C13: concurrent calls in the default configuration are independent under every
\* interleaving: two live listeners are never on the same port and never on a
\* port another process holds, each attempt passes the port of its own listener
\* in its redirect URI, the outcome of an attempt past binding is the one its own
\* flow, browser launch, redirect and exchange give, and a step of one attempt
\* changes nothing of another attempt.
C13_ConcurrentIndependent == []OwnListener /\ [][OwnStep]_vars

C13_Witness ==
  /\ Concurrent
  /\ \A a \in Attempts : pc[a] = "done" /\ IsSome(server[a]) /\ IsSome(initiateArgs[a])
  /\ Get(server[1]).port = PortLo + 1
  /\ Get(server[2]).port = PortLo
  /\ Get(initiateArgs[1]).redirect_uri.port = PortLo + 1
  /\ Get(initiateArgs[2]).redirect_uri.port = PortLo
  /\ outcomes[1][1].kind = "return"
  /\ outcomes[2][1].type = "ClientAuthenticationError"
  /\ response[2] = None

FailedToOpen ==
  [kind |-> "raise", type |-> "CredentialUnavailableError",
   message |-> [fmt |-> "Failed to open a browser", uri |-> NoUri, n |-> 0, s |-> ""],
   value |-> None]
FailedToBegin ==
  [kind |-> "raise", type |-> "CredentialUnavailableError",
   message |-> [fmt |-> "Failed to begin authentication flow", uri |-> NoUri, n |-> 0,
                s |-> ""],
   value |-> None]

\* The platforms whose release names the vendor, in either case, on Linux.
FallbackPlatforms ==
  { [system |-> <<"L","i","n","u","x">>,
     release |-> <<"5",".","1","-","m","i","c","r","o","s","o","f","t","-","W","S","L","2">>],
    [system |-> <<"L","i","n","u","x">>,
     release |-> <<"4",".","4","-","M","i","c","r","o","s","o","f","t">>] }

\* C14: the fallback launch is attempted exactly when the primary launch reported
\* failure on a Linux system whose kernel release contains the vendor marker; after
\* a successful primary launch it is never attempted, and on every other platform a
\* failed primary launch makes _open_browser return false with no fallback attempt.
C14_FallbackOnlyOnWsl ==
  \A a \in Attempts :
    IsSome(browserLog[a]) =>
      LET r == Get(browserLog[a])
      IN /\ r.primary => (r.fallback = None /\ r.opened)
         /\ IsSome(r.fallback) <=> (~r.primary /\ Get(r.uname) \in FallbackPlatforms)
         /\ (~r.primary /\ Get(r.uname) \notin FallbackPlatforms) =>
              /\ r.fallback = None
              /\ ~r.opened
              /\ pc[a] = "done"
              /\ outcomes[a] = << FailedToOpen >>

C14_Witness ==
  \E a \in Attempts :
    /\ IsSome(browserLog[a])
    /\ ~Get(browserLog[a]).primary
    /\ Get(browserLog[a]).uname =
         Some([system |-> <<"W","i","n","d","o","w","s">>,
               release |-> <<"1","0","-","m","i","c","r","o","s","o","f","t">>])
    /\ Get(browserLog[a]).fallback = None
    /\ ~Get(browserLog[a]).opened
    /\ outcomes[a] = << FailedToOpen >>

\* C15: when the fallback runs, _open_browser returns true exactly when the
\* fallback process exited with code zero; a non-zero exit code and an exception
\* of the call (the launch failed, or the 5 second timeout expired) make it return
\* false, no exception leaves it, and the attempt ends with
\* CredentialUnavailableError "Failed to open a browser".
C15_FallbackExitCode ==
  \A a \in Attempts :
    (IsSome(browserLog[a]) /\ IsSome(Get(browserLog[a]).fallback)) =>
      LET r == Get(browserLog[a])
          fb == Get(r.fallback).outcome
      IN /\ Get(r.fallback).timeout = 5
         /\ r.opened <=> (~fb.raised /\ fb.exit_code = 0)
         /\ r.opened => pc[a] # "open"
         /\ ~r.opened => (pc[a] = "done" /\ outcomes[a] = << FailedToOpen >>)

C15_Witness ==
  \E a \in Attempts :
    /\ IsSome(browserLog[a])
    /\ IsSome(Get(browserLog[a]).fallback)
    /\ Get(Get(browserLog[a]).fallback).outcome = [raised |-> FALSE, exit_code |-> 1]
    /\ ~Get(browserLog[a]).opened
    /\ outcomes[a] = << FailedToOpen >>

AuthCodeSteps ==
  << "initiate_auth_code_flow", "open_browser", "wait_for_redirect",
     "acquire_token_by_auth_code_flow" >>

\* C16: the steps of the authorization-code flow run in the fixed order, each at
\* most once, and each only after the earlier ones succeeded: the browser is opened
\* only for a flow with an authorization URL, wait_for_redirect is entered only
\* after _open_browser returned true, and the exchange is called only with a
\* redirect received; a flow without the URL and a browser that did not open end
\* the attempt with CredentialUnavailableError.
C16_StepsInOrder ==
  \A a \in Attempts :
    cfg[a].kind = "browser" =>
      /\ Len(trace[a]) <= 4
      /\ \A i \in 1..Len(trace[a]) : trace[a][i].op = AuthCodeSteps[i]
      /\ Len(trace[a]) >= 1 => IsSome(server[a])
      /\ Len(trace[a]) >= 2 =>
           /\ IsSome(flow[a])
           /\ IsSome(Get(flow[a]).auth_uri)
           /\ IsSome(browserLog[a])
           /\ Get(browserLog[a]).url = Get(Get(flow[a]).auth_uri)
      /\ Len(trace[a]) >= 3 => Get(browserLog[a]).opened
      /\ Len(trace[a]) >= 4 => (IsSome(response[a]) /\ IsSome(exchangeArgs[a]))
      /\ (IsSome(flow[a]) /\ Get(flow[a]).auth_uri = None) =>
           (Len(trace[a]) = 1 /\ pc[a] = "done" /\ outcomes[a] = << FailedToBegin >>)
      /\ (IsSome(browserLog[a]) /\ ~Get(browserLog[a]).opened) =>
           (Len(trace[a]) = 2 /\ pc[a] = "done" /\ outcomes[a] = << FailedToOpen >>)
      /\ (Len(trace[a]) = 3 /\ response[a] = None) => (pc[a] = "done" /\ exchangeArgs[a] = None)

C16_Witness ==
  \E a \in Attempts :
    /\ cfg[a].kind = "browser"
    /\ Len(trace[a]) = 4
    /\ trace[a][4].op = "acquire_token_by_auth_code_flow"
    /\ Get(browserLog[a]).opened
    /\ IsSome(response[a])
    /\ pc[a] = "done"

CouldNotBegin(text) ==
  [kind |-> "raise", type |-> "ClientAuthenticationError",
   message |-> [fmt |-> "Couldn't begin authentication: {}", uri |-> NoUri, n |-> 0,
                s |-> text],
   value |-> None]
DeviceError(a) == cfg[a].kind = "device" /\ IsSome(flow[a]) /\ IsSome(Get(flow[a]).error)

\* C17 as stated: the message of the failure is the description whenever the flow
\* has one, the error otherwise; no prompt is shown and no poll is started.
C17_DescriptionWhenPresent ==
  \A a \in Attempts :
    DeviceError(a) =>
      /\ pc[a] = "done"
      /\ outcomes[a] =
           << CouldNotBegin(IF Get(flow[a]).error_description # None
                              THEN Get(Get(flow[a]).error_description)
                              ELSE Get(Get(flow[a]).error)) >>
      /\ prompts[a] = <<>>
      /\ pollArgs[a] = None

\* C17: when initiate_device_flow returns a flow with an error, the attempt ends
\* with ClientAuthenticationError whose message carries the description when the
\* flow has a non-empty one and the error otherwise; no prompt is shown, and
\* acquire_token_by_device_flow is never called.
C17_DescriptionWhenNonEmpty ==
  \A a \in Attempts :
    DeviceError(a) =>
      /\ pc[a] = "done"
      /\ outcomes[a] =
           << CouldNotBegin(IF Get(flow[a]).error_description \notin {None, Some("")}
                              THEN Get(Get(flow[a]).error_description)
                              ELSE Get(Get(flow[a]).error)) >>
      /\ prompts[a] = <<>>
      /\ pollArgs[a] = None
      /\ result[a] = None
      /\ Len(trace[a]) = 1
      /\ trace[a][1].op = "initiate_device_flow"

C17_Witness ==
  \E a \in Attempts :
    /\ DeviceError(a)
    /\ Get(flow[a]).error_description = Some("")
    /\ outcomes[a] = << CouldNotBegin("invalid_client") >>
    /\ prompts[a] = <<>>
    /\ pollArgs[a] = None

\* C18: a device-code attempt whose flow carries no error presents the code to
\* the user exactly once, before acquire_token_by_device_flow is called: through
\* the callback, with the verification URI, the user code and the expiry as a UTC
\* date, when one is configured, and by printing the flow's message otherwise;
\* an attempt without such a flow presents nothing.
C18_PromptOnce ==
  \A a \in Attempts :
    cfg[a].kind = "device" =>
      /\ Len(prompts[a]) <= 1
      /\ (IsSome(flow[a]) /\ Get(flow[a]).error = None) =>
           Len(prompts[a]) = IF pc[a] = "prompt" THEN 0 ELSE 1
      /\ (flow[a] = None \/ DeviceError(a)) => prompts[a] = <<>>
      /\ IsSome(pollArgs[a]) => Len(prompts[a]) = 1
      /\ Len(prompts[a]) = 1 =>
           LET f == Get(flow[a])
           IN prompts[a][1] =
                IF cfg[a].prompt_callback
                  THEN [via |-> "prompt_callback", verification_uri |-> f.verification_uri,
                        user_code |-> f.user_code,
                        expires_on |-> [tz |-> "UTC", seconds |-> f.expires_at \div TicksPerSec,
                                        ticks |-> f.expires_at % TicksPerSec],
                        message |-> ""]
                  ELSE [via |-> "print", verification_uri |-> "", user_code |-> "",
                        expires_on |-> [tz |-> "", seconds |-> 0, ticks |-> 0],
                        message |-> f.message]

C18_Witness ==
  \E a \in Attempts :
    /\ cfg[a].kind = "device"
    /\ cfg[a].prompt_callback
    /\ Len(prompts[a]) = 1
    /\ prompts[a][1].via = "prompt_callback"
    /\ prompts[a][1].user_code = "ABCD"
    /\ IsSome(pollArgs[a])
    /\ pc[a] = "done"

\* C19: the device-code flow classifies its timeout without looking at the
\* credential chain: a poll that ended pending fails with ClientAuthenticationError
\* inside and outside a chain, and no device-code attempt ends with
\* CredentialUnavailableError, while a browser attempt whose wait timed out inside
\* a chain does.
C19_DeviceTimeoutIgnoresChain ==
  \A a \in Attempts :
    /\ cfg[a].kind = "device" =>
         /\ \A i \in 1..Len(outcomes[a]) : outcomes[a][i].type # "CredentialUnavailableError"
         /\ (pc[a] = "done" /\ IsSome(result[a]) /\ Pending(Get(result[a]))) =>
              outcomes[a] = << DeviceTimedOut >>
    /\ (cfg[a].kind = "browser" /\ pc[a] = "done" /\ TimedOut(a) /\ cfg[a].within_dac) =>
         outcomes[a][1].type = "CredentialUnavailableError"

C19_Witness ==
  \E a \in Attempts :
    /\ cfg[a].kind = "device"
    /\ cfg[a].within_dac
    /\ pc[a] = "done"
    /\ IsSome(result[a])
    /\ Pending(Get(result[a]))
    /\ outcomes[a][1].type = "ClientAuthenticationError"

DeadlineComputed ==
  \A a \in Attempts :
    IsSome(deadline[a]) =>
      LET at == Get(deadlineAt[a])
          T == Get(cfg[a].timeout)
          D == Get(deadline[a])
      IN /\ D = (at \div TicksPerSec) + T
         /\ D * TicksPerSec - at <= T * TicksPerSec
         /\ D * TicksPerSec - at > (T - 1) * TicksPerSec
         /\ IsSome(pollArgs[a])
         /\ at <= now
         /\ pc[a] = "poll" => (ExitNow(a) <=> now > D * TicksPerSec)

DeadlineKept ==
  \A a \in Attempts :
    /\ IsSome(deadline[a]) => deadline'[a] = deadline[a]
    /\ (deadline[a] = None /\ IsSome(deadline'[a])) =>
         (pc[a] = "start_poll" /\ pc'[a] = "poll" /\ result'[a] = None)
    /\ (IsSome(deadline[a]) /\ pc[a] = "poll" /\ pc'[a] = "poll" /\ ExitNow(a)) => ExitNow(a)'

\* C20: under a governing timeout the deadline is computed once, in the step that
\* starts polling, as the clock truncated to whole seconds plus the timeout, and is
\* never changed; the exit condition is false up to the deadline and true at every
\* later time, and stays true once it is; so the window from the computation to the
\* deadline is at most the timeout and more than the timeout less one second.
C20_DeadlineTruncated == []DeadlineComputed /\ [][DeadlineKept]_vars

C20_Witness ==
  \E a \in Attempts :
    /\ IsSome(deadline[a])
    /\ Get(deadlineAt[a]) % TicksPerSec # 0
    /\ cfg[a].timeout = Some(1)
    /\ Get(deadline[a]) * TicksPerSec - Get(deadlineAt[a]) < TicksPerSec
    /\ pc[a] = "poll"
    /\ now = Get(deadline[a]) * TicksPerSec + 1
    /\ ExitNow(a)

====
